---- MODULE Spec2Model ----
(***************************************************************************)
(* The access-filtered schema cache of pkg/schema/factory.go:              *)
(*   - Collection.Schemas and its helpers removeOldRecords, addToCache,    *)
(*     purgeUserRecords over the three indexes c.cache (primary index),    *)
(*     c.userCache (principal index) and c.userTimeoutCache (expiry        *)
(*     index);                                                             *)
(*   - Collection.schemasForSubject, the filter over the base catalog.     *)
(***************************************************************************)
EXTENDS Integers, Sequences, FiniteSets, TLC

\* ------------------------------------------------------------------ bounds
NumUsers == 2
NumIDs == 2
MaxCalls == 3
MaxTime == 1
ConcCalls == 3
MaxInFlight == 2
MaxFilters == 3

Users == 1..NumUsers
AccessIDs == 1..NumIDs

VARIABLES
    cacheTimeoutEnv,    \* the value of CATTLE_CACHE_TIMEOUT, a string as a sequence of characters
    CacheTimeout,       \* the package variable CacheTimeout, in hours
    now,                \* the clock, in hours
    cache,              \* c.cache: access.ID -> [value, expireTime]
    userCache,          \* c.userCache: user name -> [value (an access.ID), expireTime]
    userTimeoutCache,   \* c.userTimeoutCache: access.ID -> [Timeout, UserName]
    evicted,            \* history: some Get has found an expired entry and removed it
    computed,           \* the number of catalogs schemasForSubject has built so far
    last,               \* the last completed call of Schemas, when calls do not overlap
    calls,              \* the calls of Schemas begun, each with its locals, when calls overlap
    schemas,            \* c.schemas, the base catalog: schema ID -> schema
    filterLog,          \* the calls of schemasForSubject so far: the access set, the catalog built
    templates,          \* c.templates: key -> the templates registered under it, in order
    applied             \* the last call of applyTemplates: the schema before and after

vars == <<cacheTimeoutEnv, CacheTimeout, now, cache, userCache, userTimeoutCache,
          evicted, computed, last, calls, schemas, filterLog, templates, applied>>

\* ------------------------------------------------------- CacheTimeout, init
DefaultCacheTimeout == 3 * 30 * 24

DigitChars == <<"0", "1", "2", "3", "4", "5", "6", "7", "8", "9">>

IsDigit(ch) == \E i \in 1..10 : DigitChars[i] = ch

DigitVal(ch) == (CHOOSE i \in 1..10 : DigitChars[i] = ch) - 1

RECURSIVE DigitsVal(_)
DigitsVal(s) == IF s = <<>> THEN 0 ELSE 10 * DigitsVal(SubSeq(s, 1, Len(s) - 1)) + DigitVal(s[Len(s)])

\* strconv.Atoi: an optional sign, then one or more decimal digits.
Atoi(s) ==
    LET signed == s # <<>> /\ s[1] \in {"-", "+"}
        body == IF signed THEN Tail(s) ELSE s
    IN  IF body = <<>> \/ \E i \in 1..Len(body) : ~IsDigit(body[i])
        THEN [num |-> 0, err |-> TRUE]
        ELSE [num |-> IF signed /\ s[1] = "-" THEN 0 - DigitsVal(body) ELSE DigitsVal(body),
              err |-> FALSE]

\* func init(): the override replaces the default when it parses as an int.
init(env) ==
    IF env # <<>>
    THEN IF Atoi(env).err THEN DefaultCacheTimeout ELSE Atoi(env).num
    ELSE DefaultCacheTimeout

\* The overrides the environment may hold: unset, "1", "0", "-1", "x".
EnvValues == {<<>>, <<"1">>, <<"0">>, <<"-", "1">>, <<"x">>}

\* ------------------------------------------------- the LRU expire cache, the map
\* c.cache.Add / c.userCache.Add: the entry expires ttl after the time of the Add.
LRUAdd(c, key, value, ttl) ==
    [k \in DOMAIN c \cup {key} |->
        IF k = key THEN [value |-> value, expireTime |-> now + ttl] ELSE c[k]]

LRURemove(c, key) == [k \in DOMAIN c \ {key} |-> c[k]]

\* c.cache.Get / c.userCache.Get: a hit needs an entry that has not expired ...
LRUGetOk(c, key) == key \in DOMAIN c /\ ~(now > c[key].expireTime)

\* ... and an expired entry is removed by the Get that finds it.
LRUExpired(c, key) == key \in DOMAIN c /\ now > c[key].expireTime

LRUAfterGet(c, key) == IF LRUExpired(c, key) THEN LRURemove(c, key) ELSE c

\* c.userTimeoutCache.Store / Delete (a sync.Map)
MapStore(m, key, value) == [k \in DOMAIN m \cup {key} |-> IF k = key THEN value ELSE m[k]]

MapDelete(m, key) == [k \in DOMAIN m \ {key} |-> m[k]]

\* --------------------------------------------------------------- the catalog
\* A *types.APISchemas: the access set attached to it, its identity as an object
\* and, as a history field, the user whose call built it.
NoSchemas == [accessSet |-> 0, obj |-> 0, user |-> 0]

\* schemasForSubject's result for access: result.Attributes["accessSet"] = access.
NewSchemas(accessID, obj, user) == [accessSet |-> accessID, obj |-> obj, user |-> user]

\* ------------------------------------------------- schemasForSubject, the filter
All == "*"

AllVerbs == <<"get", "list", "watch", "create", "update", "delete">>

Range(seq) == {seq[i] : i \in 1..Len(seq)}

\* A schema of the base catalog: attributes.GR, attributes.Namespaced,
\* attributes.Verbs and attributes.DisallowMethods read group, resource, namespaced,
\* verbs and disallowMethods; ResourceMethods and CollectionMethods are its lists.
Schema(group, resource, namespaced, verbs, disallow, collectionMethods) ==
    [group |-> group, resource |-> resource, namespaced |-> namespaced, verbs |-> verbs,
     disallowMethods |-> disallow, ResourceMethods |-> <<>>,
     CollectionMethods |-> collectionMethods, access |-> <<>>]

\* The base catalog: the core namespaces resource, a namespaced resource, a cluster
\* scoped resource, and a schema with no resource behind it.
Catalog(disallow) ==
    [id \in {"namespace", "pod", "rbac.clusterrole", "apigroup"} |->
        CASE id = "namespace" -> Schema("", "namespaces", FALSE, AllVerbs, disallow, <<>>)
          [] id = "pod" -> Schema("", "pods", TRUE, AllVerbs, disallow, <<>>)
          [] id = "rbac.clusterrole" ->
                Schema("rbac", "clusterroles", FALSE, <<"get", "list", "watch", "delete">>,
                       disallow, <<>>)
          [] OTHER -> Schema("", "", FALSE, <<>>, {}, <<"GET">>)]

BaseCatalogs == {Catalog(disallow) : disallow \in SUBSET {"GET", "PUT"}}

\* An accesscontrol.Access
Access(namespace, resourceName) == [Namespace |-> namespace, ResourceName |-> resourceName]

\* The grants of an access set for verbs on a group and resource.
Grant(verbs, group, resource, accessList) ==
    [key \in {<<verb, group, resource>> : verb \in verbs} |-> accessList]

\* The access sets the access-decision engine hands out; the ID is a function of
\* the grants.
AccessSets ==
    { [ID |-> 1,
       grants |-> Grant(Range(AllVerbs), "", "namespaces", <<Access(All, All)>>)
                  @@ Grant(Range(AllVerbs), "", "pods", <<Access(All, All)>>)
                  @@ Grant(Range(AllVerbs), "rbac", "clusterroles", <<Access(All, All)>>),
       namespaces |-> <<"ns1", "ns2">>],
      [ID |-> 2, grants |-> <<>>, namespaces |-> <<>>],
      [ID |-> 3,
       grants |-> Grant({"get", "list", "watch"}, "", "pods",
                        <<Access("ns1", All), Access("ns2", All)>>)
                  @@ Grant({"get"}, "rbac", "clusterroles", <<Access("ns1", All)>>)
                  @@ Grant({"get"}, "", "namespaces", <<Access("ns1", All)>>),
       namespaces |-> <<"ns1", "ns2">>],
      [ID |-> 4,
       grants |-> Grant({"create", "update", "delete"}, "", "pods", <<Access("ns1", All)>>)
                  @@ Grant({"delete"}, "rbac", "clusterroles",
                           <<Access("ns1", All), Access(All, All)>>),
       namespaces |-> <<"ns1">>],
      [ID |-> 5,
       grants |-> Grant({"watch"}, "", "pods", <<Access(All, All)>>),
       namespaces |-> <<>>] }

\* access.AccessListFor(verb, gr)
AccessListFor(access, verb, group, resource) ==
    IF <<verb, group, resource>> \in DOMAIN access.grants
    THEN access.grants[<<verb, group, resource>>]
    ELSE <<>>

\* The loop over the verbs without the trimming for schemas that are not namespaced.
TrimmedAccessList_NoTrim(s, access, verb) == AccessListFor(access, verb, s.group, s.resource)

\* The loop over the verbs: the grants of a verb, without the namespaced ones when
\* the schema is not namespaced.
TrimmedAccessList(s, access, verb) ==
    LET a == AccessListFor(access, verb, s.group, s.resource)
    IN  IF ~s.namespaced THEN SelectSeq(a, LAMBDA x : x.Namespace = All) ELSE a

\* verbAccess after the loop: the verbs with a grant left.
GrantedVerbAccess(s, access) ==
    [verb \in {v \in Range(s.verbs) : Len(TrimmedAccessList(s, access, v)) > 0} |->
        TrimmedAccessList(s, access, verb)]

\* The namespaces special case: one grant for each namespace of the access set.
RECURSIVE NamespaceAccessList(_)
NamespaceAccessList(namespaces) ==
    IF namespaces = <<>>
    THEN <<>>
    ELSE <<Access(All, Head(namespaces))>> \o NamespaceAccessList(Tail(namespaces))

IsNamespaceFallback(s, access) ==
    /\ DOMAIN GrantedVerbAccess(s, access) = {}
    /\ s.group = "" /\ s.resource = "namespaces"

\* verbAccess without the namespaces special case.
VerbAccess_NoFallback(s, access) == GrantedVerbAccess(s, access)

\* verbAccess when the derivation starts.
VerbAccess(s, access) ==
    IF IsNamespaceFallback(s, access)
    THEN [verb \in {"get", "watch"} |-> NamespaceAccessList(access.namespaces)]
    ELSE GrantedVerbAccess(s, access)

\* The schema of the base catalog after the namespaces special case, which appends
\* to the CollectionMethods of s, the schema of c.schemas, before s is copied.
AfterNamespaceCase(s, access) ==
    IF IsNamespaceFallback(s, access) /\ Len(NamespaceAccessList(access.namespaces)) = 0
    THEN [s EXCEPT !.CollectionMethods = Append(@, "GET")]
    ELSE s

\* accesscontrol.AccessListByVerb.AnyVerb
AnyVerb(verbAccess, verbs) == \E v \in verbs : v \in DOMAIN verbAccess /\ Len(verbAccess[v]) > 0

allowed(s, method) == IF method \in s.disallowMethods THEN "blocked-" \o method ELSE method

\* The derivations with watch counted as a grant to read.
Derived_WatchReads(s, verbAccess) ==
    LET get == IF AnyVerb(verbAccess, {"list", "get", "watch"})
               THEN <<allowed(s, "GET")>> ELSE <<>>
        create == IF AnyVerb(verbAccess, {"create"}) THEN <<allowed(s, "POST")>> ELSE <<>>
    IN  [s EXCEPT !.access = verbAccess,
                  !.ResourceMethods = @ \o get,
                  !.CollectionMethods = @ \o get \o create]

\* s.DeepCopy(), attributes.SetAccess and the four derivations on the copy.
Derived(s, verbAccess) ==
    LET get == IF AnyVerb(verbAccess, {"list", "get"}) THEN <<allowed(s, "GET")>> ELSE <<>>
        delete == IF AnyVerb(verbAccess, {"delete"}) THEN <<allowed(s, "DELETE")>> ELSE <<>>
        update == IF AnyVerb(verbAccess, {"update"})
                  THEN <<allowed(s, "PUT"), allowed(s, "PATCH")>> ELSE <<>>
        create == IF AnyVerb(verbAccess, {"create"}) THEN <<allowed(s, "POST")>> ELSE <<>>
    IN  [s EXCEPT !.access = verbAccess,
                  !.ResourceMethods = @ \o get \o delete \o update,
                  !.CollectionMethods = @ \o get \o create]

\* One round of the loop that adds the schema built whatever its lists hold.
FilterSchema_KeepsEmpty(s, access) ==
    [base |-> AfterNamespaceCase(s, access),
     out |-> Derived(AfterNamespaceCase(s, access), VerbAccess(s, access)),
     added |-> TRUE]

\* One round of the loop over c.schemas: the schema left in the base catalog, the
\* schema built, and whether it is added to the result.
FilterSchema(s, access) ==
    IF s.resource = ""
    THEN [base |-> s, out |-> s, added |-> TRUE]
    ELSE LET s1 == AfterNamespaceCase(s, access)
             copy == Derived(s1, VerbAccess(s, access))
         IN  [base |-> s1, out |-> copy,
              added |-> ~(Len(copy.CollectionMethods) = 0 /\ Len(copy.ResourceMethods) = 0)]

\* schemasForSubject(access) on the base catalog: the base catalog it leaves and
\* the catalog it returns, with the access set attached.
schemasForSubject(base, access) ==
    [schemas |-> [id \in DOMAIN base |-> FilterSchema(base[id], access).base],
     result |-> [accessSet |-> access.ID,
                 schemas |-> [id \in {x \in DOMAIN base : FilterSchema(base[x], access).added} |->
                                FilterSchema(base[id], access).out]]]

\* ------------------------------------------------- applyTemplates, the templates
\* The most templates the registry holds.
MaxTemplates == 3

\* The keys templates are registered under: a schema ID, a "group/kind", the
\* wildcard "", and the ID of a schema other than the one templates are applied to.
TemplateKeys == {"pod", "/Pod", "", "apps.deployment"}

\* What a template may supply: a formatter, a store, a store factory, a hook.
TemplateShapes ==
    { [Formatter |-> FALSE, Store |-> FALSE, StoreFactory |-> FALSE, Customize |-> TRUE],
      [Formatter |-> TRUE, Store |-> TRUE, StoreFactory |-> FALSE, Customize |-> FALSE],
      [Formatter |-> TRUE, Store |-> FALSE, StoreFactory |-> FALSE, Customize |-> TRUE],
      [Formatter |-> FALSE, Store |-> FALSE, StoreFactory |-> TRUE, Customize |-> TRUE],
      [Formatter |-> FALSE, Store |-> TRUE, StoreFactory |-> TRUE, Customize |-> FALSE] }

\* The *Template registered as the n-th under key. What it supplies carries its
\* name; <<>> stands for nil. The registry holds no nil *Template.
Template(key, n, shape) ==
    LET name == <<key \o "#" \o ToString(n)>>
    IN  [Formatter |-> IF shape.Formatter THEN name ELSE <<>>,
         Store |-> IF shape.Store THEN name ELSE <<>>,
         StoreFactory |-> IF shape.StoreFactory THEN name ELSE <<>>,
         Customize |-> IF shape.Customize THEN name ELSE <<>>]

\* The schemas applyTemplates is called on: Formatter is the chain of formatters,
\* the first to run first, Store the store, <<>> for nil; customized is a history
\* field, the hooks that were called on the schema.
APISchemas ==
    { [ID |-> "pod", group |-> "", kind |-> "Pod", Formatter |-> f, Store |-> s,
       customized |-> <<>>] : f \in {<<>>, <<"own">>}, s \in {<<>>, <<"own">>} }

\* c.templates[key]: nil, the empty list, for a key with no template.
Lookup(tpls, key) == IF key \in DOMAIN tpls THEN tpls[key] ELSE <<>>

defaultStore(tpls) == IF Len(Lookup(tpls, "")) > 0 THEN Lookup(tpls, "")[1].Store ELSE <<>>

\* types.FormatterChain(top, next)
FormatterChain(top, next) == top \o next

\* t.StoreFactory(store): the store the factory builds around store.
StoreFrom(factory, store) == <<"made by">> \o factory \o store

\* Mutant: every template that supplies a store assigns it, the last one wins.
applyTemplate_LastStoreWins(tpls, schema, t) ==
    [schema EXCEPT
        !.Formatter = IF @ = <<>> THEN t.Formatter
                      ELSE IF t.Formatter # <<>> THEN FormatterChain(t.Formatter, @) ELSE @,
        !.Store = IF t.StoreFactory # <<>> THEN StoreFrom(t.StoreFactory, defaultStore(tpls))
                  ELSE IF t.Store # <<>> THEN t.Store ELSE @,
        !.customized = IF t.Customize # <<>> THEN @ \o t.Customize ELSE @]

\* Mutant: the hook of a template is called only while the schema has no store.
applyTemplate_HookUntilStore(tpls, schema, t) ==
    [schema EXCEPT
        !.Formatter = IF @ = <<>> THEN t.Formatter
                      ELSE IF t.Formatter # <<>> THEN FormatterChain(t.Formatter, @) ELSE @,
        !.Store = IF @ = <<>>
                  THEN IF t.StoreFactory = <<>> THEN t.Store
                       ELSE StoreFrom(t.StoreFactory, defaultStore(tpls))
                  ELSE @,
        !.customized = IF t.Customize # <<>> /\ schema.Store = <<>> THEN @ \o t.Customize ELSE @]

\* The body of the loops of applyTemplates, for a template t that is not nil.
applyTemplate(tpls, schema, t) ==
    [schema EXCEPT
        !.Formatter = IF @ = <<>> THEN t.Formatter
                      ELSE IF t.Formatter # <<>> THEN FormatterChain(t.Formatter, @) ELSE @,
        !.Store = IF @ = <<>>
                  THEN IF t.StoreFactory = <<>> THEN t.Store
                       ELSE StoreFrom(t.StoreFactory, defaultStore(tpls))
                  ELSE @,
        !.customized = IF t.Customize # <<>> THEN @ \o t.Customize ELSE @]

\* The inner loop of applyTemplates: the templates of one key, in order.
RECURSIVE applyLayer(_, _, _)
applyLayer(tpls, schema, list) ==
    IF list = <<>>
    THEN schema
    ELSE applyLayer(tpls, applyTemplate(tpls, schema, Head(list)), Tail(list))

\* applyTemplates(schema): the templates of the schema's ID, then those of its
\* "group/kind", then those of "".
applyTemplates(tpls, schema) ==
    LET byID == Lookup(tpls, schema.ID)
        byKind == Lookup(tpls, schema.group \o "/" \o schema.kind)
        any == Lookup(tpls, "")
    IN  applyLayer(tpls, applyLayer(tpls, applyLayer(tpls, schema, byID), byKind), any)

\* No call of applyTemplates yet.
NoApply == [done |-> FALSE, in |-> <<>>, out |-> <<>>]

\* ---------------------------------------------------- the operations on the indexes
\* The indexes and the trace of operations of the call in progress.
Indexes == [cache |-> cache, userCache |-> userCache,
            userTimeoutCache |-> userTimeoutCache, evicted |-> evicted, trace |-> <<>>]

Did(S, op, key) == [S EXCEPT !.trace = Append(@, <<op, key>>)]

\* Mutant: the purge forgets the expiry index.
purgeUserRecords_KeepsExpiry(S, id) ==
    LET S1 == Did([S EXCEPT !.cache = LRURemove(@, id)], "cache.Remove", id)
    IN  Did(S1, "as.PurgeUserData", id)

\* Mutant: the purge notifies the engine before it removes the records.
purgeUserRecords_NotifyFirst(S, id) ==
    LET S1 == Did(S, "as.PurgeUserData", id)
        S2 == Did([S1 EXCEPT !.cache = LRURemove(@, id)], "cache.Remove", id)
    IN  Did([S2 EXCEPT !.userTimeoutCache = MapDelete(@, id)], "userTimeoutCache.Delete", id)

purgeUserRecords(S, id) ==
    LET S1 == Did([S EXCEPT !.cache = LRURemove(@, id)], "cache.Remove", id)
        S2 == Did([S1 EXCEPT !.userTimeoutCache = MapDelete(@, id)], "userTimeoutCache.Delete", id)
    IN  Did(S2, "as.PurgeUserData", id)

\* Mutant: the stale record is purged, the principal's stale entry is left behind.
removeOldRecords_KeepsEntry(S, accessID, user) ==
    LET ok == LRUGetOk(S.userCache, user)
        S1 == Did([S EXCEPT !.userCache = LRUAfterGet(@, user),
                            !.evicted = @ \/ LRUExpired(S.userCache, user)],
                  "userCache.Get", user)
    IN  IF ok /\ S.userCache[user].value # accessID
        THEN purgeUserRecords(S1, S.userCache[user].value)
        ELSE S1

removeOldRecords(S, accessID, user) ==
    LET ok == LRUGetOk(S.userCache, user)
        S1 == Did([S EXCEPT !.userCache = LRUAfterGet(@, user),
                            !.evicted = @ \/ LRUExpired(S.userCache, user)],
                  "userCache.Get", user)
    IN  IF ok /\ S.userCache[user].value # accessID
        THEN LET S2 == purgeUserRecords(S1, S.userCache[user].value)
             IN  Did([S2 EXCEPT !.userCache = LRURemove(@, user)], "userCache.Remove", user)
        ELSE S1

addToCache(S, accessID, user, apiSchemas) ==
    LET S1 == Did([S EXCEPT !.cache = LRUAdd(@, accessID, apiSchemas, CacheTimeout)],
                  "cache.Add", accessID)
        S2 == Did([S1 EXCEPT !.userCache = LRUAdd(@, user, accessID, CacheTimeout)],
                  "userCache.Add", user)
    IN  Did([S2 EXCEPT !.userTimeoutCache =
                MapStore(@, accessID, [Timeout |-> now + CacheTimeout, UserName |-> user])],
            "userTimeoutCache.Store", accessID)

\* Mutant: the lookup ignores what it finds and always computes and stores.
Serve_AlwaysComputes(S, user, accessID, computeErr) ==
    LET S2 == Did([S EXCEPT !.cache = LRUAfterGet(@, accessID),
                            !.evicted = @ \/ LRUExpired(S.cache, accessID)],
                  "cache.Get", accessID)
        S3 == Did(S2, "schemasForSubject", accessID)
        built == NewSchemas(accessID, computed + 1, user)
    IN  IF computeErr
        THEN [S |-> S3, ret |-> NoSchemas, err |-> TRUE, hit |-> FALSE, ran |-> TRUE]
        ELSE [S |-> addToCache(S3, accessID, user, built),
              ret |-> built, err |-> FALSE, hit |-> FALSE, ran |-> TRUE]

\* Mutant: a hit stores the record again, which restarts its time to live.
Serve_RefreshOnHit(S, user, accessID, computeErr) ==
    LET ok == LRUGetOk(S.cache, accessID)
        S2 == Did([S EXCEPT !.cache = LRUAfterGet(@, accessID),
                            !.evicted = @ \/ LRUExpired(S.cache, accessID)],
                  "cache.Get", accessID)
        S3 == Did(S2, "schemasForSubject", accessID)
        built == NewSchemas(accessID, computed + 1, user)
    IN  IF ok
        THEN [S |-> [S2 EXCEPT !.cache = LRUAdd(@, accessID, S.cache[accessID].value, CacheTimeout)],
              ret |-> S.cache[accessID].value, err |-> FALSE, hit |-> TRUE, ran |-> FALSE]
        ELSE IF computeErr
        THEN [S |-> S3, ret |-> NoSchemas, err |-> TRUE, hit |-> FALSE, ran |-> TRUE]
        ELSE [S |-> addToCache(S3, accessID, user, built),
              ret |-> built, err |-> FALSE, hit |-> FALSE, ran |-> TRUE]

\* Mutant: the result of the computation is stored before its error is looked at.
Serve_CachesFailure(S, user, accessID, computeErr) ==
    LET ok == LRUGetOk(S.cache, accessID)
        S2 == Did([S EXCEPT !.cache = LRUAfterGet(@, accessID),
                            !.evicted = @ \/ LRUExpired(S.cache, accessID)],
                  "cache.Get", accessID)
        S3 == Did(S2, "schemasForSubject", accessID)
        built == NewSchemas(accessID, computed + 1, user)
    IN  IF ok
        THEN [S |-> S2, ret |-> S.cache[accessID].value, err |-> FALSE, hit |-> TRUE, ran |-> FALSE]
        ELSE IF computeErr
        THEN [S |-> addToCache(S3, accessID, user, NoSchemas),
              ret |-> NoSchemas, err |-> TRUE, hit |-> FALSE, ran |-> TRUE]
        ELSE [S |-> addToCache(S3, accessID, user, built),
              ret |-> built, err |-> FALSE, hit |-> FALSE, ran |-> TRUE]

\* Collection.Schemas from the lookup on: the record under accessID is returned, or
\* a catalog is computed, stored and returned; computeErr says whether
\* schemasForSubject, if it runs, returns an error.
Serve(S, user, accessID, computeErr) ==
    LET ok == LRUGetOk(S.cache, accessID)
        S2 == Did([S EXCEPT !.cache = LRUAfterGet(@, accessID),
                            !.evicted = @ \/ LRUExpired(S.cache, accessID)],
                  "cache.Get", accessID)
        S3 == Did(S2, "schemasForSubject", accessID)
        built == NewSchemas(accessID, computed + 1, user)
    IN  IF ok
        THEN [S |-> S2, ret |-> S.cache[accessID].value, err |-> FALSE, hit |-> TRUE, ran |-> FALSE]
        ELSE IF computeErr
        THEN [S |-> S3, ret |-> NoSchemas, err |-> TRUE, hit |-> FALSE, ran |-> TRUE]
        ELSE [S |-> addToCache(S3, accessID, user, built),
              ret |-> built, err |-> FALSE, hit |-> FALSE, ran |-> TRUE]

\* Mutant: the lookup and the store come first, the staleness purge last.
Schemas_LookupFirst(S, user, accessID, computeErr) ==
    LET r == Serve(S, user, accessID, computeErr)
    IN  [r EXCEPT !.S = removeOldRecords(r.S, accessID, user)]

\* Collection.Schemas for user, whose access set is accessID: the staleness purge,
\* then the lookup.
Schemas(S, user, accessID, computeErr) ==
    Serve(removeOldRecords(S, accessID, user), user, accessID, computeErr)

\* ------------------------------------------------------------------ actions
NoCall == [n |-> 0, user |-> 0, id |-> 0, ret |-> NoSchemas, err |-> FALSE,
           hit |-> FALSE, ran |-> FALSE, trace |-> <<>>]

Init ==
    /\ cacheTimeoutEnv \in EnvValues
    /\ CacheTimeout = init(cacheTimeoutEnv)
    /\ now = 0
    /\ cache = <<>>
    /\ userCache = <<>>
    /\ userTimeoutCache = <<>>
    /\ evicted = FALSE
    /\ computed = 0
    /\ last = NoCall
    /\ calls = <<>>
    /\ schemas = Catalog({})
    /\ filterLog = <<>>
    /\ templates = <<>>
    /\ applied = NoApply

\* One whole call of Collection.Schemas(user), c.as.AccessFor(user) returning accessID.
Resolve(user, accessID, computeErr) ==
    /\ last.n < MaxCalls
    /\ LET r == Schemas(Indexes, user, accessID, computeErr)
       IN  /\ cache' = r.S.cache
           /\ userCache' = r.S.userCache
           /\ userTimeoutCache' = r.S.userTimeoutCache
           /\ evicted' = r.S.evicted
           /\ computed' = IF r.ran /\ ~r.err THEN computed + 1 ELSE computed
           /\ last' = [n |-> last.n + 1, user |-> user, id |-> accessID, ret |-> r.ret,
                       err |-> r.err, hit |-> r.hit, ran |-> r.ran, trace |-> r.S.trace]
    /\ UNCHANGED <<cacheTimeoutEnv, CacheTimeout, now, calls, schemas, filterLog,
                   templates, applied>>

\* An hour passes.
Tick ==
    /\ now < MaxTime
    /\ now' = now + 1
    /\ UNCHANGED <<cacheTimeoutEnv, CacheTimeout, cache, userCache, userTimeoutCache,
                   evicted, computed, last, calls, schemas, filterLog, templates, applied>>

Next ==
    \/ \E user \in Users, accessID \in AccessIDs, computeErr \in BOOLEAN :
            Resolve(user, accessID, computeErr)
    \/ Tick

Spec == Init /\ [][Next]_vars

\* ------------------------------------------- overlapping calls, one operation a step
\* Collection.Schemas takes no lock around its cache operations: each operation of
\* the LRU caches and of the sync.Map is atomic, and calls interleave between them.
InFlight == {i \in 1..Len(calls) : calls[i].pc # "done"}

SetCall(i, c) == calls' = [calls EXCEPT ![i] = c]

\* Schemas is entered: access := c.as.AccessFor(user).
Begin(user, accessID) ==
    /\ Len(calls) < ConcCalls
    /\ Cardinality(InFlight) < MaxInFlight
    /\ calls' = Append(calls, [user |-> user, id |-> accessID, pc |-> "userCache.Get",
                               currentId |-> 0, schemas |-> NoSchemas, ret |-> NoSchemas,
                               err |-> FALSE,
                               sameUser |-> \E j \in InFlight : calls[j].user = user])
    /\ UNCHANGED <<cacheTimeoutEnv, CacheTimeout, now, cache, userCache, userTimeoutCache,
                   evicted, computed, last, schemas, filterLog, templates, applied>>

\* removeOldRecords: current, ok := c.userCache.Get(user.GetName()) and the test on it.
UserCacheGet(i) ==
    /\ calls[i].pc = "userCache.Get"
    /\ userCache' = LRUAfterGet(userCache, calls[i].user)
    /\ evicted' = (evicted \/ LRUExpired(userCache, calls[i].user))
    /\ IF LRUGetOk(userCache, calls[i].user) /\ userCache[calls[i].user].value # calls[i].id
       THEN SetCall(i, [calls[i] EXCEPT !.pc = "cache.Remove",
                                        !.currentId = userCache[calls[i].user].value])
       ELSE SetCall(i, [calls[i] EXCEPT !.pc = "cache.Get"])
    /\ UNCHANGED <<cacheTimeoutEnv, CacheTimeout, now, cache, userTimeoutCache, computed,
                   last, schemas, filterLog, templates, applied>>

\* purgeUserRecords: c.cache.Remove(id)
CacheRemove(i) ==
    /\ calls[i].pc = "cache.Remove"
    /\ cache' = LRURemove(cache, calls[i].currentId)
    /\ SetCall(i, [calls[i] EXCEPT !.pc = "userTimeoutCache.Delete"])
    /\ UNCHANGED <<cacheTimeoutEnv, CacheTimeout, now, userCache, userTimeoutCache,
                   evicted, computed, last, schemas, filterLog, templates, applied>>

\* purgeUserRecords: c.userTimeoutCache.Delete(id)
UserTimeoutCacheDelete(i) ==
    /\ calls[i].pc = "userTimeoutCache.Delete"
    /\ userTimeoutCache' = MapDelete(userTimeoutCache, calls[i].currentId)
    /\ SetCall(i, [calls[i] EXCEPT !.pc = "as.PurgeUserData"])
    /\ UNCHANGED <<cacheTimeoutEnv, CacheTimeout, now, cache, userCache, evicted,
                   computed, last, schemas, filterLog, templates, applied>>

\* purgeUserRecords: c.as.PurgeUserData(id)
PurgeUserData(i) ==
    /\ calls[i].pc = "as.PurgeUserData"
    /\ SetCall(i, [calls[i] EXCEPT !.pc = "userCache.Remove"])
    /\ UNCHANGED <<cacheTimeoutEnv, CacheTimeout, now, cache, userCache, userTimeoutCache,
                   evicted, computed, last, schemas, filterLog, templates, applied>>

\* removeOldRecords: c.userCache.Remove(user.GetName())
UserCacheRemove(i) ==
    /\ calls[i].pc = "userCache.Remove"
    /\ userCache' = LRURemove(userCache, calls[i].user)
    /\ SetCall(i, [calls[i] EXCEPT !.pc = "cache.Get"])
    /\ UNCHANGED <<cacheTimeoutEnv, CacheTimeout, now, cache, userTimeoutCache,
                   evicted, computed, last, schemas, filterLog, templates, applied>>

\* Schemas: val, ok := c.cache.Get(access.ID), and the return on a hit.
CacheGet(i) ==
    /\ calls[i].pc = "cache.Get"
    /\ cache' = LRUAfterGet(cache, calls[i].id)
    /\ evicted' = (evicted \/ LRUExpired(cache, calls[i].id))
    /\ IF LRUGetOk(cache, calls[i].id)
       THEN SetCall(i, [calls[i] EXCEPT !.pc = "done", !.ret = cache[calls[i].id].value])
       ELSE SetCall(i, [calls[i] EXCEPT !.pc = "schemasForSubject"])
    /\ UNCHANGED <<cacheTimeoutEnv, CacheTimeout, now, userCache, userTimeoutCache, computed,
                   last, schemas, filterLog, templates, applied>>

\* Schemas: schemas, err := c.schemasForSubject(access), and the return on an error.
SchemasForSubject(i, computeErr) ==
    /\ calls[i].pc = "schemasForSubject"
    /\ IF computeErr
       THEN /\ SetCall(i, [calls[i] EXCEPT !.pc = "done", !.err = TRUE])
            /\ computed' = computed
       ELSE /\ SetCall(i, [calls[i] EXCEPT !.pc = "cache.Add",
                              !.schemas = NewSchemas(calls[i].id, computed + 1, calls[i].user)])
            /\ computed' = computed + 1
    /\ UNCHANGED <<cacheTimeoutEnv, CacheTimeout, now, cache, userCache, userTimeoutCache,
                   evicted, last, schemas, filterLog, templates, applied>>

\* addToCache: c.cache.Add(access.ID, schemas, CacheTimeout*time.Hour)
CacheAdd(i) ==
    /\ calls[i].pc = "cache.Add"
    /\ cache' = LRUAdd(cache, calls[i].id, calls[i].schemas, CacheTimeout)
    /\ SetCall(i, [calls[i] EXCEPT !.pc = "userCache.Add"])
    /\ UNCHANGED <<cacheTimeoutEnv, CacheTimeout, now, userCache, userTimeoutCache,
                   evicted, computed, last, schemas, filterLog, templates, applied>>

\* addToCache: c.userCache.Add(user.GetName(), access.ID, CacheTimeout*time.Hour)
UserCacheAdd(i) ==
    /\ calls[i].pc = "userCache.Add"
    /\ userCache' = LRUAdd(userCache, calls[i].user, calls[i].id, CacheTimeout)
    /\ SetCall(i, [calls[i] EXCEPT !.pc = "userTimeoutCache.Store"])
    /\ UNCHANGED <<cacheTimeoutEnv, CacheTimeout, now, cache, userTimeoutCache,
                   evicted, computed, last, schemas, filterLog, templates, applied>>

\* addToCache: c.userTimeoutCache.Store(access.ID, ...), and the return of the catalog.
UserTimeoutCacheStore(i) ==
    /\ calls[i].pc = "userTimeoutCache.Store"
    /\ userTimeoutCache' = MapStore(userTimeoutCache, calls[i].id,
                               [Timeout |-> now + CacheTimeout, UserName |-> calls[i].user])
    /\ SetCall(i, [calls[i] EXCEPT !.pc = "done", !.ret = calls[i].schemas])
    /\ UNCHANGED <<cacheTimeoutEnv, CacheTimeout, now, cache, userCache, evicted,
                   computed, last, schemas, filterLog, templates, applied>>

ConcInit == Init /\ cacheTimeoutEnv = <<>>

ConcNext ==
    \/ \E user \in Users, accessID \in AccessIDs : Begin(user, accessID)
    \/ \E i \in 1..Len(calls) : UserCacheGet(i)
    \/ \E i \in 1..Len(calls) : CacheRemove(i)
    \/ \E i \in 1..Len(calls) : UserTimeoutCacheDelete(i)
    \/ \E i \in 1..Len(calls) : PurgeUserData(i)
    \/ \E i \in 1..Len(calls) : UserCacheRemove(i)
    \/ \E i \in 1..Len(calls) : CacheGet(i)
    \/ \E i \in 1..Len(calls), computeErr \in BOOLEAN : SchemasForSubject(i, computeErr)
    \/ \E i \in 1..Len(calls) : CacheAdd(i)
    \/ \E i \in 1..Len(calls) : UserCacheAdd(i)
    \/ \E i \in 1..Len(calls) : UserTimeoutCacheStore(i)

SpecConc == ConcInit /\ [][ConcNext]_vars

\* ----------------------------------------------------- the claims, under SpecConc
AllDone == calls # <<>> /\ InFlight = {}

\* C7: when calls for one principal overlap, once all calls have completed the
\* primary index holds no record stored on behalf of a principal other than the one
\* the principal's entry points to.
C7_PerPrincipalAtomic ==
    AllDone =>
        \A d \in DOMAIN cache :
            LET P == cache[d].value.user
            IN  P \in DOMAIN userCache /\ userCache[P].value = d

\* C8: when only calls of different principals overlap, once all calls have
\* completed the primary index and the expiry index hold the same keys.
C8_CrossIndexConsistent ==
    (AllDone /\ \A i \in 1..Len(calls) : ~calls[i].sameUser) =>
        DOMAIN cache = DOMAIN userTimeoutCache

\* C20: whenever no call is in flight, also after calls of different principals
\* that overlapped and share a decision identity, every entry of the principal
\* index points to an identity with a record in the primary index: the purge for
\* one principal never removes the record another principal's entry points to.
C20_ReferentialIntegrity ==
    (InFlight = {} /\ \A i \in 1..Len(calls) : ~calls[i].sameUser) =>
        \A P \in DOMAIN userCache : userCache[P].value \in DOMAIN cache

\* ------------------------------------------------- calls of schemasForSubject alone
\* One call of schemasForSubject.
Filter(access) ==
    /\ Len(filterLog) < MaxFilters
    /\ schemas' = schemasForSubject(schemas, access).schemas
    /\ filterLog' = Append(filterLog, [access |-> access.ID, base |-> schemas,
                                       result |-> schemasForSubject(schemas, access).result])
    /\ UNCHANGED <<cacheTimeoutEnv, CacheTimeout, now, cache, userCache, userTimeoutCache,
                   evicted, computed, last, calls, templates, applied>>

FilterInit ==
    /\ cacheTimeoutEnv = <<>>
    /\ CacheTimeout = init(cacheTimeoutEnv)
    /\ now = 0
    /\ cache = <<>>
    /\ userCache = <<>>
    /\ userTimeoutCache = <<>>
    /\ evicted = FALSE
    /\ computed = 0
    /\ last = NoCall
    /\ calls = <<>>
    /\ schemas \in BaseCatalogs
    /\ filterLog = <<>>
    /\ templates = <<>>
    /\ applied = NoApply

FilterNext == \E access \in AccessSets : Filter(access)

SpecFilter == FilterInit /\ [][FilterNext]_vars

\* ------------------------------------------------------ calls of applyTemplates
\* The number of templates in the registry.
Registered ==
    Cardinality(UNION {{<<k, i>> : i \in 1..Len(templates[k])} : k \in DOMAIN templates})

\* A template is registered under key, before any schema is served.
AddTemplate(key, shape) ==
    /\ ~applied.done
    /\ Registered < MaxTemplates
    /\ templates' = MapStore(templates, key,
                             Append(Lookup(templates, key),
                                    Template(key, Len(Lookup(templates, key)) + 1, shape)))
    /\ UNCHANGED <<cacheTimeoutEnv, CacheTimeout, now, cache, userCache, userTimeoutCache,
                   evicted, computed, last, calls, schemas, filterLog, applied>>

\* One call of applyTemplates.
ApplyTemplates(schema) ==
    /\ applied' = [done |-> TRUE, in |-> schema, out |-> applyTemplates(templates, schema)]
    /\ UNCHANGED <<cacheTimeoutEnv, CacheTimeout, now, cache, userCache, userTimeoutCache,
                   evicted, computed, last, calls, schemas, filterLog, templates>>

TemplatesInit == Init /\ cacheTimeoutEnv = <<>>

TemplatesNext ==
    \/ \E key \in TemplateKeys, shape \in TemplateShapes : AddTemplate(key, shape)
    \/ \E schema \in APISchemas : ApplyTemplates(schema)

SpecTemplates == TemplatesInit /\ [][TemplatesNext]_vars

\* --------------------------------------------------- the claims, under SpecFilter
\* C9: a call of schemasForSubject leaves every schema of the base catalog
\* c.schemas unchanged, its ResourceMethods and CollectionMethods in particular.
C9_BaseImmutable == [][schemas' = schemas]_vars

\* C10: two calls of schemasForSubject for the same access set, whatever calls
\* come between them, build the same operation lists and the same verb -> grant
\* maps for every schema.
C10_Deterministic ==
    \A i, j \in 1..Len(filterLog) :
        filterLog[i].access = filterLog[j].access =>
            /\ DOMAIN filterLog[i].result.schemas = DOMAIN filterLog[j].result.schemas
            /\ \A id \in DOMAIN filterLog[i].result.schemas :
                   LET a == filterLog[i].result.schemas[id]
                       b == filterLog[j].result.schemas[id]
                   IN  /\ a.ResourceMethods = b.ResourceMethods
                       /\ a.CollectionMethods = b.CollectionMethods
                       /\ a.access = b.access

\* The access set of an entry of filterLog.
AccessOf(e) == CHOOSE a \in AccessSets : a.ID = e.access

\* The schemas of a base catalog with a resource behind them that are not namespaced.
ClusterScoped(base) == {id \in DOMAIN base : base[id].resource # "" /\ ~base[id].namespaced}

IsNamespaces(s) == s.group = "" /\ s.resource = "namespaces"

\* The access set grants nothing with the cluster-wide marker for verb on s.
NoClusterGrant(s, access, verb) ==
    \A g \in Range(AccessListFor(access, verb, s.group, s.resource)) : g.Namespace # All

\* No verb of s keeps a grant: every grant of every verb is trimmed.
NothingSurvives(s, access) == \A v \in Range(s.verbs) : NoClusterGrant(s, access, v)

\* The map attached to a schema that is not namespaced holds only grants with the
\* cluster-wide marker.
OnlyClusterGrants(e, id) ==
    id \in DOMAIN e.result.schemas =>
        \A v \in DOMAIN e.result.schemas[id].access :
            \A g \in Range(e.result.schemas[id].access[v]) : g.Namespace = All

\* The access set grants verb on s, and every grant is trimmed.
AllTrimmed(s, access, verb) ==
    /\ AccessListFor(access, verb, s.group, s.resource) # <<>>
    /\ NoClusterGrant(s, access, verb)

\* A verb whose grants are all trimmed is not in the map, and a schema that loses
\* every grant it had gets no operation and is left out.
TrimmedVerbsAbsent(e, id) ==
    /\ \A v \in Range(e.base[id].verbs) :
           AllTrimmed(e.base[id], AccessOf(e), v) /\ id \in DOMAIN e.result.schemas
               => v \notin DOMAIN e.result.schemas[id].access
    /\ (/\ NothingSurvives(e.base[id], AccessOf(e))
        /\ \E v \in Range(e.base[id].verbs) : AllTrimmed(e.base[id], AccessOf(e), v))
           => id \notin DOMAIN e.result.schemas

\* C11 as the claim states it: for every schema that is not namespaced, the map
\* holds only cluster-wide grants, and every verb whose grants are all trimmed is
\* absent from the map and contributes no operation.
C11_AsStated ==
    \A i \in 1..Len(filterLog) : \A id \in ClusterScoped(filterLog[i].base) :
        OnlyClusterGrants(filterLog[i], id) /\ TrimmedVerbsAbsent(filterLog[i], id)

\* C11: for every schema that is not namespaced, the map holds only cluster-wide
\* grants; a verb whose grants are all trimmed is absent from the map and
\* contributes no operation, except on the core namespaces resource when no verb
\* keeps a grant, where get and watch are filled in from the visible namespaces.
C11_ClusterGrantsOnly ==
    \A i \in 1..Len(filterLog) : \A id \in ClusterScoped(filterLog[i].base) :
        /\ OnlyClusterGrants(filterLog[i], id)
        /\ \/ IsNamespaces(filterLog[i].base[id])
              /\ NothingSurvives(filterLog[i].base[id], AccessOf(filterLog[i]))
           \/ TrimmedVerbsAbsent(filterLog[i], id)

\* A call trimmed the namespaced grant of delete on the cluster roles and kept the
\* cluster-wide one, and a call trimmed every grant of the cluster roles.
C11_Witness ==
    /\ \E i \in 1..Len(filterLog) :
           /\ filterLog[i].access = 4
           /\ "rbac.clusterrole" \in DOMAIN filterLog[i].result.schemas
           /\ filterLog[i].result.schemas["rbac.clusterrole"].access
                  = [v \in {"delete"} |-> <<Access(All, All)>>]
    /\ \E i \in 1..Len(filterLog) :
           /\ filterLog[i].access = 3
           /\ "rbac.clusterrole" \notin DOMAIN filterLog[i].result.schemas

\* The method as a consumer sees it when the schema lists it in its block-list.
Tagged(s, method) == IF method \in s.disallowMethods THEN "blocked-" \o method ELSE method

\* The calls for an access set that leaves the core namespaces resource without a
\* surviving grant.
FallbackCalls ==
    {i \in 1..Len(filterLog) :
        NothingSurvives(filterLog[i].base["namespace"], AccessOf(filterLog[i]))}

\* list is one grant for each visible namespace, in order, cluster-wide marker as
\* the namespace and the namespace as the resource name.
OneGrantPerNamespace(list, namespaces) ==
    /\ Len(list) = Len(namespaces)
    /\ \A k \in 1..Len(list) : list[k] = [Namespace |-> All, ResourceName |-> namespaces[k]]

\* C12: when no verb of the core namespaces resource keeps a grant, the schema is
\* in the result with get and watch each holding one grant for each visible
\* namespace, and GET at both levels; with no visible namespace the schema is
\* still in the result and declares the collection-level GET, and no
\* resource-level GET is added.
C12_NamespaceFallback ==
    \A i \in FallbackCalls :
        LET e == filterLog[i]
            visible == AccessOf(e).namespaces
        IN  /\ "namespace" \in DOMAIN e.result.schemas
            /\ DOMAIN e.result.schemas["namespace"].access = {"get", "watch"}
            /\ \A v \in {"get", "watch"} :
                   OneGrantPerNamespace(e.result.schemas["namespace"].access[v], visible)
            /\ visible # <<>> =>
                   /\ Tagged(e.base["namespace"], "GET")
                          \in Range(e.result.schemas["namespace"].ResourceMethods)
                   /\ Tagged(e.base["namespace"], "GET")
                          \in Range(e.result.schemas["namespace"].CollectionMethods)
            /\ visible = <<>> =>
                   /\ "GET" \in Range(e.result.schemas["namespace"].CollectionMethods)
                   /\ e.result.schemas["namespace"].ResourceMethods
                          = e.base["namespace"].ResourceMethods
                   /\ {"GET", "blocked-GET"}
                          \cap Range(e.result.schemas["namespace"].ResourceMethods) = {}

\* The special case ran with two visible namespaces and with none.
C12_Witness ==
    /\ \E i \in FallbackCalls : Len(AccessOf(filterLog[i]).namespaces) = 2
    /\ \E i \in FallbackCalls :
           /\ AccessOf(filterLog[i]).namespaces = <<>>
           /\ "namespace" \in DOMAIN filterLog[i].result.schemas

\* The schemas of a base catalog with a resource behind them.
ResourceSchemas(base) == {id \in DOMAIN base : base[id].resource # ""}

\* The map holds a grant for one of the verbs.
Granted(map, verbs) == \E v \in verbs \cap DOMAIN map : map[v] # <<>>

\* The table of spec 4.2, resource level: list or get gives GET, delete gives
\* DELETE, update gives PUT and PATCH.
TableResource(s, map) ==
    (IF Granted(map, {"list", "get"}) THEN <<Tagged(s, "GET")>> ELSE <<>>)
    \o (IF Granted(map, {"delete"}) THEN <<Tagged(s, "DELETE")>> ELSE <<>>)
    \o (IF Granted(map, {"update"}) THEN <<Tagged(s, "PUT"), Tagged(s, "PATCH")>> ELSE <<>>)

\* The table of spec 4.2, collection level: list or get gives GET, create gives POST.
TableCollection(s, map) ==
    (IF Granted(map, {"list", "get"}) THEN <<Tagged(s, "GET")>> ELSE <<>>)
    \o (IF Granted(map, {"create"}) THEN <<Tagged(s, "POST")>> ELSE <<>>)

\* The grants of the access set that the filter keeps for verb on s.
Surviving(s, access, verb) ==
    LET a == AccessListFor(access, verb, s.group, s.resource)
    IN  IF s.namespaced THEN a # <<>> ELSE \E g \in Range(a) : g.Namespace = All

\* The call ran the namespaces special case with no visible namespace.
EmptyFallback(e, id) ==
    /\ IsNamespaces(e.base[id])
    /\ NothingSurvives(e.base[id], AccessOf(e))
    /\ AccessOf(e).namespaces = <<>>

\* The schema built for id adds the operations of the table to those the schema
\* has in the base catalog when the call starts, after extra at collection level;
\* a schema left out has no verb of the table granted.
AddsTheTable(e, id, extra) ==
    IF id \in DOMAIN e.result.schemas
    THEN LET out == e.result.schemas[id]
         IN  /\ out.ResourceMethods
                    = e.base[id].ResourceMethods \o TableResource(e.base[id], out.access)
             /\ out.CollectionMethods
                    = e.base[id].CollectionMethods \o extra
                      \o TableCollection(e.base[id], out.access)
    ELSE \A v \in Range(e.base[id].verbs) \cap {"list", "get", "delete", "update", "create"} :
             ~Surviving(e.base[id], AccessOf(e), v)

\* C13 as the claim states it: for every schema with a resource and every verb
\* map, the operations the filter adds are exactly those of the table, and no
\* other operation is added.
C13_AsStated ==
    \A i \in 1..Len(filterLog) : \A id \in ResourceSchemas(filterLog[i].base) :
        AddsTheTable(filterLog[i], id, <<>>)

\* C13: for every schema with a resource and every verb map, the operations the
\* filter adds to those of the base schema are exactly those of the table, and
\* no other, except the collection-level GET of the core namespaces resource
\* when no verb keeps a grant and no namespace is visible.
C13_TableOnly ==
    \A i \in 1..Len(filterLog) : \A id \in ResourceSchemas(filterLog[i].base) :
        AddsTheTable(filterLog[i], id,
                     IF EmptyFallback(filterLog[i], id) THEN <<"GET">> ELSE <<>>)

\* A call derived DELETE, PUT, PATCH and POST for the pods from delete, update
\* and create, and a call left the pods out for a grant of watch alone.
C13_Witness ==
    /\ \E i \in 1..Len(filterLog) :
           /\ filterLog[i].access = 4
           /\ "pod" \in DOMAIN filterLog[i].result.schemas
           /\ Len(filterLog[i].result.schemas["pod"].ResourceMethods) = 3
           /\ filterLog[i].result.schemas["pod"].CollectionMethods = <<"POST">>
    /\ \E i \in 1..Len(filterLog) :
           /\ filterLog[i].access = 5
           /\ "pod" \notin DOMAIN filterLog[i].result.schemas

\* The methods of the table that the map attached to a schema gives at resource
\* level and at collection level.
TableMethodsResource(map) ==
    (IF Granted(map, {"list", "get"}) THEN {"GET"} ELSE {})
    \cup (IF Granted(map, {"delete"}) THEN {"DELETE"} ELSE {})
    \cup (IF Granted(map, {"update"}) THEN {"PUT", "PATCH"} ELSE {})

TableMethodsCollection(map) ==
    (IF Granted(map, {"list", "get"}) THEN {"GET"} ELSE {})
    \cup (IF Granted(map, {"create"}) THEN {"POST"} ELSE {})

\* In list, every method of derived is there, tagged if and only if it is
\* blocked, and no blocked method is there untagged.
TaggedIn(list, derived, blocked) ==
    /\ \A m \in derived \cap blocked : ("blocked-" \o m) \in Range(list)
    /\ \A m \in derived \ blocked : m \in Range(list) /\ ("blocked-" \o m) \notin Range(list)
    /\ \A m \in blocked : m \notin Range(list)

\* C14: in the schema built for a resource, every operation the filter derives
\* that is in the block-list of the schema is listed as blocked-<METHOD>, never
\* untagged and never left out, at resource level and at collection level; the
\* operations that are not blocked are listed untagged.
C14_BlockedTagged ==
    \A i \in 1..Len(filterLog) :
        \A id \in ResourceSchemas(filterLog[i].base) \cap DOMAIN filterLog[i].result.schemas :
            LET out == filterLog[i].result.schemas[id]
            IN  /\ TaggedIn(out.ResourceMethods, TableMethodsResource(out.access),
                            out.disallowMethods)
                /\ TaggedIn(out.CollectionMethods, TableMethodsCollection(out.access),
                            out.disallowMethods)

\* After the derivation the schema of id has an operation: one it has in the base
\* catalog when the call starts, one of the table for a verb that keeps a grant,
\* or the GET of the namespaces special case.
HasOperations(e, id) ==
    \/ e.base[id].ResourceMethods # <<>>
    \/ e.base[id].CollectionMethods # <<>>
    \/ \E v \in Range(e.base[id].verbs) \cap {"list", "get", "delete", "update", "create"} :
           Surviving(e.base[id], AccessOf(e), v)
    \/ IsNamespaces(e.base[id]) /\ NothingSurvives(e.base[id], AccessOf(e))

\* C15: a schema with a resource is in the filtered catalog if and only if after
\* the derivation its resource-level or its collection-level list is not empty;
\* a schema with no surviving grant and no operation is absent, for every access
\* set and after any earlier calls.
C15_DropWhenEmpty ==
    \A i \in 1..Len(filterLog) : \A id \in ResourceSchemas(filterLog[i].base) :
        /\ id \in DOMAIN filterLog[i].result.schemas <=> HasOperations(filterLog[i], id)
        /\ id \in DOMAIN filterLog[i].result.schemas =>
               \/ filterLog[i].result.schemas[id].ResourceMethods # <<>>
               \/ filterLog[i].result.schemas[id].CollectionMethods # <<>>

\* A third call, after two others, left out the pods and the cluster roles, for
\* which the access set grants nothing, and kept the namespaces.
C15_Witness ==
    /\ Len(filterLog) = 3
    /\ filterLog[3].access = 2
    /\ DOMAIN filterLog[3].result.schemas = {"namespace", "apigroup"}
    /\ DOMAIN filterLog[1].result.schemas = DOMAIN filterLog[1].base

\* ------------------------------------------------ the claims, under SpecTemplates
\* The templates that match the schema of the last call, in the order exact ID,
\* "group/kind", wildcard, and within a key in the order of registration.
Matching ==
    Lookup(templates, applied.in.ID)
    \o Lookup(templates, applied.in.group \o "/" \o applied.in.kind)
    \o Lookup(templates, "")

\* The positions of the matching templates that supply a store or a store factory.
Suppliers == {i \in 1..Len(Matching) : Matching[i].Store # <<>> \/ Matching[i].StoreFactory # <<>>}

FirstSupplier == Matching[CHOOSE i \in Suppliers : \A j \in Suppliers : i <= j]

\* The store a template assigns: the one its factory builds around the default
\* store, or else its own.
StoreOf(t) ==
    IF t.StoreFactory # <<>>
    THEN StoreFrom(t.StoreFactory, defaultStore(templates))
    ELSE t.Store

\* C16: the store of a schema that comes without one is that of the first
\* template, in the order exact ID, "group/kind", wildcard, that supplies a store
\* or a store factory, and no later template replaces it; templates that supply
\* neither leave the store unset; an exact-match template with only a hook and a
\* wildcard template with a formatter and a store give the schema the formatter
\* and the store of the wildcard template.
C16_StorePrecedence ==
    applied.done =>
        /\ applied.in.Store = <<>> =>
               applied.out.Store = IF Suppliers = {} THEN <<>> ELSE StoreOf(FirstSupplier)
        /\ applied.in.Store # <<>> => applied.out.Store = applied.in.Store
        /\ (/\ applied.in.Store = <<>> /\ applied.in.Formatter = <<>>
            /\ Len(Matching) = 2
            /\ Lookup(templates, applied.in.ID) = <<Matching[1]>>
            /\ Lookup(templates, "") = <<Matching[2]>>
            /\ Matching[1].Formatter = <<>> /\ Matching[1].Store = <<>>
            /\ Matching[1].StoreFactory = <<>> /\ Matching[1].Customize # <<>>
            /\ Matching[2].Formatter # <<>> /\ Matching[2].Store # <<>>
            /\ Matching[2].StoreFactory = <<>>)
               => /\ applied.out.Formatter = Matching[2].Formatter
                  /\ applied.out.Store = Matching[2].Store

\* An exact-match template with only a hook, then a wildcard template with a
\* formatter and a store, then another that supplies a store: the schema has the
\* store and the formatter of the first wildcard template.
C16_Witness ==
    /\ applied.done
    /\ applied.in.Store = <<>> /\ applied.in.Formatter = <<>>
    /\ Len(Matching) = 3
    /\ Lookup(templates, applied.in.ID) = <<Matching[1]>>
    /\ Suppliers = {2, 3}
    /\ Matching[2].StoreFactory = <<>> /\ Matching[2].Formatter # <<>>
    /\ applied.out.Store = Matching[2].Store
    /\ applied.out.Formatter = Matching[2].Formatter
    /\ applied.out.customized = Matching[1].Customize

\* The hooks of a list of templates, in order.
RECURSIVE Hooks(_)
Hooks(list) == IF list = <<>> THEN <<>> ELSE Head(list).Customize \o Hooks(Tail(list))

\* C19: applyTemplates calls the hook of every matching template that has one,
\* once, in the order exact ID, "group/kind", wildcard and within a key in the
\* order of registration, whether or not a formatter or a store is already set.
C19_HooksInOrder ==
    applied.done =>
        /\ applied.out.customized = applied.in.customized \o Hooks(Matching)
        /\ \A i, j \in 1..Len(applied.out.customized) :
               applied.out.customized[i] = applied.out.customized[j] => i = j

\* One hook of each key ran, in order, on a schema that came with a formatter and
\* a store, and a template under another schema's ID was left alone.
C19_Witness ==
    /\ applied.done
    /\ applied.in.Store # <<>> /\ applied.in.Formatter # <<>>
    /\ applied.out.customized = <<"pod#1", "/Pod#1">>
    /\ Len(Lookup(templates, "apps.deployment")) = 1
    /\ Lookup(templates, "apps.deployment")[1].Customize # <<>>

\* ---------------------------------------------------------- the claims, under Spec
\* A step of Spec that is a call of Schemas: last' describes it.
IsCall == last'.n = last.n + 1

\* The decision identities a call notified the access-decision engine to purge.
PurgedBy(trace) == {trace[i][2] : i \in {j \in 1..Len(trace) : trace[j][1] = "as.PurgeUserData"}}

\* The positions of an operation in a call's trace.
Positions(trace, ops) == {i \in 1..Len(trace) : trace[i][1] \in ops}

\* The entries of an LRU expire cache that have not expired.
LiveEntries(c) == [k \in {x \in DOMAIN c : ~(now > c[x].expireTime)} |-> c[k]]

\* The call finds user's principal-index entry pointing to another identity than its own.
StaleEntry == IsCall /\ LRUGetOk(userCache, last'.user) /\ userCache[last'.user].value # last'.id

\* C1 as stated: whenever a call Resolve(P) finds P's principal-index entry pointing
\* to D1 while the engine returns D2 # D1, after the call (one that did not fail)
\* there is no record under D1 in the primary index or the expiry index and P's
\* entry points to D2, whether or not a record under D2 already existed.
C1_AsStated ==
    [][(StaleEntry /\ ~last'.err) =>
        /\ userCache[last'.user].value \notin DOMAIN cache'
        /\ userCache[last'.user].value \notin DOMAIN userTimeoutCache'
        /\ last'.user \in DOMAIN userCache'
        /\ userCache'[last'.user].value = last'.id]_vars

\* C1 amended: after such a call there is no record under D1 in the primary index
\* or the expiry index; P's entry points to D2 when the call missed and its
\* computation succeeded, and P has no entry at all when the call hit a record that
\* already existed under D2 or its computation failed.
C1_OneRecordPerPrincipal ==
    [][StaleEntry =>
        /\ userCache[last'.user].value \notin DOMAIN cache'
        /\ userCache[last'.user].value \notin DOMAIN userTimeoutCache'
        /\ IF LRUGetOk(cache, last'.id) \/ last'.err
           THEN last'.user \notin DOMAIN userCache'
           ELSE /\ last'.user \in DOMAIN userCache'
                /\ userCache'[last'.user].value = last'.id]_vars

\* A call purged a stale identity, then missed, computed and stored under the new one.
C1_Witness ==
    /\ last.n > 1
    /\ PurgedBy(last.trace) # {}
    /\ ~last.hit /\ ~last.err
    /\ last.user \in DOMAIN userCache /\ userCache[last.user].value = last.id
    /\ PurgedBy(last.trace) \cap DOMAIN cache = {}

\* C2: in every call the staleness purge comes before the primary-index lookup, the
\* catalog returned carries the decision set the engine returned in that call, and
\* every record under key D of the primary index was computed from the set with ID D.
C2_NoStaleCatalog ==
    /\ \A i \in Positions(last.trace, {"cache.Get"}) :
           \A j \in Positions(last.trace, {"userCache.Get", "cache.Remove", "userTimeoutCache.Delete",
                                           "as.PurgeUserData", "userCache.Remove"}) : j < i
    /\ (last.n > 0 /\ ~last.err) => last.ret.accessSet = last.id
    /\ \A d \in DOMAIN cache : cache[d].value.accessSet = d

\* A call purged a stale identity and then served a record another call had stored.
C2_Witness ==
    /\ PurgedBy(last.trace) # {}
    /\ last.hit
    /\ last.ret.accessSet = last.id
    /\ last.ret.user # last.user

\* Two consecutive calls for the same principal and identity, the first without a
\* failure, the record unexpired at the second.
Repeated ==
    /\ IsCall /\ last.n > 0 /\ ~last.err
    /\ last'.user = last.user /\ last'.id = last.id
    /\ LRUGetOk(cache, last.id)

\* C3 as stated: such calls return the identical catalog object and the computation
\* runs exactly once across the two.
C3_AsStated ==
    [][Repeated =>
        /\ last'.ret = last.ret
        /\ (IF last.ran THEN 1 ELSE 0) + (IF last'.ran THEN 1 ELSE 0) = 1]_vars

\* C3 amended: such calls return the identical catalog object and the second never
\* runs the computation; the computation runs once across the two when the first
\* call missed, and not at all when the first was itself a hit.
C3_IdempotentHit ==
    [][Repeated =>
        /\ last'.ret = last.ret
        /\ ~last'.ran /\ computed' = computed
        /\ (IF last.ran THEN 1 ELSE 0) + (IF last'.ran THEN 1 ELSE 0) = (IF last.hit THEN 0 ELSE 1)]_vars

\* The second of two calls by one user for one identity: the first built the
\* catalog, the second returned the same object.
C3_Witness ==
    /\ last.n = 2 /\ computed = 1
    /\ last.hit /\ ~last.ran
    /\ last.ret.obj = 1 /\ last.ret.user = last.user /\ last.ret.accessSet = last.id

\* The call finds an unexpired record under its identity, and no unexpired entry of
\* its principal pointing elsewhere.
HitCase ==
    /\ IsCall
    /\ LRUGetOk(cache, last'.id)
    /\ LRUGetOk(userCache, last'.user) => userCache[last'.user].value = last'.id

\* C4: a call that hits returns the record under its identity, whoever stored it,
\* and leaves the unexpired entries of the primary and the principal index, their
\* expiry times included, and the expiry index unchanged; it computes nothing and
\* notifies no purge.
C4_HitChangesNothing ==
    [][HitCase =>
        /\ last'.hit /\ ~last'.err /\ ~last'.ran
        /\ last'.ret = cache[last'.id].value
        /\ LiveEntries(cache)' = LiveEntries(cache)
        /\ LiveEntries(userCache)' = LiveEntries(userCache)
        /\ userTimeoutCache' = userTimeoutCache
        /\ computed' = computed
        /\ Positions(last'.trace, {"cache.Remove", "userTimeoutCache.Delete", "as.PurgeUserData",
                                   "userCache.Remove", "schemasForSubject", "cache.Add",
                                   "userCache.Add", "userTimeoutCache.Store"}) = {}]_vars

\* A user with no principal-index entry was served the record another user stored.
C4_Witness ==
    /\ last.hit
    /\ last.ret.user # last.user
    /\ last.user \notin DOMAIN userCache
    /\ last.id \in DOMAIN userTimeoutCache
    /\ userTimeoutCache[last.id].UserName = last.ret.user

\* C5: as long as the cache has evicted no record itself, a decision identity has
\* a record in the primary index iff it has an entry in the expiry index.
C5_Lockstep == ~evicted => DOMAIN cache = DOMAIN userTimeoutCache

\* After a purge and a store, with nothing evicted, both indexes hold a record.
C5_Witness ==
    /\ ~evicted
    /\ PurgedBy(last.trace) # {}
    /\ ~last.hit /\ ~last.err
    /\ DOMAIN cache = DOMAIN userTimeoutCache
    /\ last.id \in DOMAIN cache

\* C6: a call whose computation fails returns the error and no catalog, and no
\* index gains or rewrites an entry: every entry left is an entry that was there.
C6_FailureNotCached ==
    [][(IsCall /\ last'.err) =>
        /\ last'.ret = NoSchemas
        /\ last'.id \notin DOMAIN cache'
        /\ \A k \in DOMAIN cache' : k \in DOMAIN cache /\ cache'[k] = cache[k]
        /\ \A k \in DOMAIN userCache' : k \in DOMAIN userCache /\ userCache'[k] = userCache[k]
        /\ \A k \in DOMAIN userTimeoutCache' :
               k \in DOMAIN userTimeoutCache /\ userTimeoutCache'[k] = userTimeoutCache[k]]_vars

\* A call failed after purging a stale identity: nothing is stored for it.
C6_Witness ==
    /\ last.err /\ last.ran
    /\ last.ret = NoSchemas
    /\ PurgedBy(last.trace) # {}
    /\ last.id \notin DOMAIN cache
    /\ last.user \notin DOMAIN userCache

\* The operations of a call that remove something or notify the engine.
PurgeOps == {"cache.Remove", "userTimeoutCache.Delete", "as.PurgeUserData", "userCache.Remove"}

\* The operations a call for user under id runs, up to the primary-index lookup,
\* when it purges the stale identity old.
PurgeProtocol(user, old, id) ==
    << <<"userCache.Get", user>>, <<"cache.Remove", old>>, <<"userTimeoutCache.Delete", old>>,
       <<"as.PurgeUserData", old>>, <<"userCache.Remove", user>>, <<"cache.Get", id>> >>

\* C18: a call purges if and only if the principal index holds an entry for the
\* principal that points to another identity than the current one; the purge
\* removes the old identity from the primary index, then from the expiry index,
\* then notifies the engine once, then removes the principal's entry, all before
\* the primary-index lookup; otherwise nothing is removed and nothing notified.
C18_PurgeProtocol ==
    [][IsCall =>
        IF StaleEntry
        THEN /\ Len(last'.trace) >= 6
             /\ SubSeq(last'.trace, 1, 6)
                    = PurgeProtocol(last'.user, userCache[last'.user].value, last'.id)
             /\ Cardinality(Positions(last'.trace, PurgeOps)) = 4
             /\ userCache[last'.user].value \notin DOMAIN cache'
             /\ userCache[last'.user].value \notin DOMAIN userTimeoutCache'
        ELSE /\ Positions(last'.trace, PurgeOps) = {}
             /\ last'.trace[1] = <<"userCache.Get", last'.user>>
             /\ last'.trace[2] = <<"cache.Get", last'.id>>
             /\ DOMAIN userTimeoutCache \subseteq DOMAIN userTimeoutCache'
             /\ DOMAIN LiveEntries(cache) \subseteq DOMAIN cache'
             /\ DOMAIN LiveEntries(userCache) \subseteq DOMAIN userCache']_vars

\* A call ran the whole purge for an identity other than its own, in order, and
\* then looked its own identity up.
C18_Witness ==
    /\ Len(last.trace) >= 6
    /\ last.trace[1] = <<"userCache.Get", last.user>>
    /\ last.trace[2][1] = "cache.Remove" /\ last.trace[2][2] # last.id
    /\ last.trace[3][1] = "userTimeoutCache.Delete"
    /\ last.trace[4] = <<"as.PurgeUserData", last.trace[2][2]>>
    /\ last.trace[5] = <<"userCache.Remove", last.user>>
    /\ last.trace[6] = <<"cache.Get", last.id>>

\* The override is a non-negative integer: digits and nothing else.
IsNonNegativeInteger(env) == env # <<>> /\ \A i \in 1..Len(env) : IsDigit(env[i])

\* C17: the TTL is 2160 hours when the override is absent, the override when it
\* is a non-negative integer, and 2160 for every other override; the entries that
\* one call stores in the three indexes expire at the same time, one TTL after
\* the call.
C17_TTL ==
    /\ CacheTimeout = IF IsNonNegativeInteger(cacheTimeoutEnv)
                      THEN DigitsVal(cacheTimeoutEnv)
                      ELSE 2160
    /\ last.ran /\ ~last.err =>
           /\ cache[last.id].expireTime = userCache[last.user].expireTime
           /\ cache[last.id].expireTime = userTimeoutCache[last.id].Timeout
           /\ \E t \in 0..now : cache[last.id].expireTime = t + CacheTimeout

====
